---- MODULE Spec2Model ----
(***************************************************************************)
(* Model of lib-solvro-error-handling: the IBaseError shape, its           *)
(* validators and normaliser (base.ts), the BaseError constructor, the     *)
(* cause-chain analyser and the two reporters (reporting.ts), and          *)
(* Promise.prototype.addErrorContext (install-context.ts).                 *)
(*                                                                         *)
(* JavaScript values are tagged records.  `typeof`, `in`, property reads,  *)
(* String() and JSON.stringify() are modelled by what they do on these     *)
(* values, including the cases in which they throw.                        *)
(***************************************************************************)
EXTENDS Integers, Sequences, FiniteSets, TLC

VARIABLES
  error,    \* the value currently held by the caller (thrown / caught value)
  fields,   \* properties collected for the next object literal / options bag
  built,    \* number of properties the caller has written so far
  given,    \* how each object of the chain was created, top first
  called,   \* name of the library function called last ("" before any call)
  arg,      \* the argument of that call, as it was when the call was made
  result,   \* what that call returned (or Throw)
  promises, \* promises[1] is an asynchronous operation, promises[i + 1] is
            \* what promises[i].addErrorContext(...) returned
  handlers  \* the rejection handler addErrorContext attached to promises[i]

vars == <<error, fields, built, given, called, arg, result, promises, handlers>>

\* bounds of the exploration
MaxDepth == 2     \* objects in a cause chain (normaliser)
MaxBuilt == 2     \* properties written over a whole chain
MaxChain == 3     \* objects in a cause chain (analyser)
MaxContexts == 2  \* addErrorContext calls chained on one operation

-----------------------------------------------------------------------------
(* JavaScript values *)

Undefined == [type |-> "undefined"]
Null      == [type |-> "null"]
BigInt    == [type |-> "bigint"]
Func      == [type |-> "function"]
Str(s)    == [type |-> "string", s |-> s]
Num(n)    == [type |-> "number", n |-> n]
Bool(b)   == [type |-> "boolean", b |-> b]
Obj(p)    == [type |-> "object", props |-> p]
Arr(a)    == [type |-> "array", items |-> a]

\* the text String(v) of a non-string primitive v, e.g. "undefined", "42"
StringText(v) == [type |-> "string", str |-> v]
\* the text JSON.stringify(v) of a serialisable value v
JsonText(v)   == [type |-> "string", json |-> v]

\* a multi-line string; a line is its trimmed text without a leading "at "
\* marker, and whether it had the marker
StackText(lines) == [type |-> "string", lines |-> lines]

\* abrupt completion of a call (a TypeError propagating to the caller)
Throw == [type |-> "throw"]

NoProps == [k \in {} |-> Undefined]

\* property names every plain object inherits from Object.prototype
ObjectPrototypeKeys == {"toString"}

\* typeof v
TypeOf(v) ==
  IF v.type \in {"null", "object", "array"} THEN "object" ELSE v.type

\* v === undefined || v === null
IsNullish(v) == v.type \in {"undefined", "null"}

\* own enumerable string keys of an object (Object.entries / spread)
OwnKeys(v) == IF v.type = "object" THEN DOMAIN v.props ELSE {}

\* k in v, for v of typeof "object" and not null: own or inherited key
Has(v, k) ==
  \/ v.type = "object" /\ k \in DOMAIN v.props
  \/ k \in ObjectPrototypeKeys

\* v[k] / v.k
Get(v, k) ==
  IF v.type = "object" /\ k \in DOMAIN v.props THEN v.props[k]
  ELSE IF k \in ObjectPrototypeKeys THEN Func
  ELSE Undefined

\* v.k = x
SetProp(v, k, x) ==
  [v EXCEPT !.props = [j \in (DOMAIN v.props) \cup {k} |->
                         IF j = k THEN x ELSE v.props[j]]]

\* delete v.k
DeleteProp(v, k) ==
  IF v.type = "object"
  THEN [v EXCEPT !.props = [j \in (DOMAIN v.props) \ {k} |-> v.props[j]]]
  ELSE v

\* String(v) for a value that is not an object
String(v) == IF v.type = "string" THEN v ELSE StringText(v)

\* does serialising v reach a BigInt (JSON.stringify then throws a TypeError)
RECURSIVE ReachesBigInt(_)
ReachesBigInt(v) ==
  CASE v.type = "bigint" -> TRUE
    [] v.type = "object" -> \E k \in DOMAIN v.props : ReachesBigInt(v.props[k])
    [] v.type = "array"  -> \E i \in DOMAIN v.items : ReachesBigInt(v.items[i])
    [] OTHER -> FALSE

\* JSON.stringify(v): a string, undefined, or a thrown TypeError
JSONStringify(v) ==
  IF v.type \in {"undefined", "function"} THEN Undefined
  ELSE IF ReachesBigInt(v) THEN Throw
  ELSE JsonText(v)

\* a ?? b
Coalesce(a, b) == IF IsNullish(a) THEN b ELSE a

-----------------------------------------------------------------------------
(* base.ts: validation *)

\* mutant: a property holding undefined is treated as ill-typed
OptionalOfTypeNoUndefined(err, k, t) ==
  \/ ~Has(err, k)
  \/ TypeOf(Get(err, k)) = t

\* (!("k" in error) || error.k === undefined || typeof error.k === t)
OptionalOfType(err, k, t) ==
  \/ ~Has(err, k)
  \/ Get(err, k) = Undefined
  \/ TypeOf(Get(err, k)) = t

\* the callback of error.messages.every(...)
IsValidationIssue(value) ==
  /\ TypeOf(value) = "object"
  /\ value # Null
  /\ Has(value, "message")
  /\ TypeOf(Get(value, "message")) = "string"

MessagesOk(err) ==
  \/ ~Has(err, "messages")
  \/ Get(err, "messages") = Undefined
  \/ /\ Get(err, "messages").type = "array"
     /\ \A i \in DOMAIN Get(err, "messages").items :
          IsValidationIssue(Get(err, "messages").items[i])

ExtraResponseFieldsOk(err) ==
  \/ ~Has(err, "extraResponseFields")
  \/ Get(err, "extraResponseFields") = Undefined
  \/ /\ TypeOf(Get(err, "extraResponseFields")) = "object"
     /\ Get(err, "extraResponseFields") # Null
     /\ ~Has(Get(err, "extraResponseFields"), "error")

shallowIsIBaseError(err) ==
  /\ TypeOf(err) = "object"
  /\ err # Null
  /\ Has(err, "message")
  /\ TypeOf(Get(err, "message")) = "string"
  /\ OptionalOfType(err, "code", "string")
  /\ OptionalOfType(err, "status", "number")
  /\ MessagesOk(err)
  /\ OptionalOfType(err, "stack", "string")
  /\ OptionalOfType(err, "sensitive", "boolean")
  /\ OptionalOfType(err, "silent", "boolean")
  /\ ExtraResponseFieldsOk(err)

RECURSIVE isIBaseError(_)
isIBaseError(err) ==
  /\ TypeOf(err) = "object"
  /\ err # Null
  /\ shallowIsIBaseError(err)
  /\ \/ ~Has(err, "cause")
     \/ Get(err, "cause") = Undefined
     \/ isIBaseError(Get(err, "cause"))

-----------------------------------------------------------------------------
(* base.ts: normalisation *)

MessagePlaceholder ==
  Str("<an error value so weird, that i've got zero idea how to handle it>")
IssuePlaceholder ==
  Str("<the original validation message was really weird and could not be serialized>")

\* message: "message" in error && typeof error.message === "string"
\*            ? error.message : (JSON.stringify(error) ?? placeholder)
ReconstructedMessage(err) ==
  IF Has(err, "message") /\ TypeOf(Get(err, "message")) = "string"
  THEN Get(err, "message")
  ELSE LET j == JSONStringify(err)
       IN  IF j = Throw THEN Throw ELSE Coalesce(j, MessagePlaceholder)

\* the callback of error.messages.map(...)
CoerceIssue(message) ==
  IF TypeOf(message) = "string" THEN Obj("message" :> message)
  ELSE IF TypeOf(message) = "object"
  THEN IF message = Null THEN Throw   \* "message" in null is a TypeError
       ELSE IF Has(message, "message") THEN message
       ELSE LET j == JSONStringify(message)
            IN  IF j = Throw THEN Throw
                ELSE Obj("message" :> Coalesce(j, IssuePlaceholder))
  ELSE LET j == JSONStringify(message)
       IN  IF j = Throw THEN Throw
           ELSE Obj("message" :> Coalesce(j, IssuePlaceholder))

\* error.messages.map(...): Throw as soon as one callback throws
ReconstructedMessages(messages) ==
  LET mapped == [i \in DOMAIN messages.items |-> CoerceIssue(messages.items[i])]
  IN  IF \E i \in DOMAIN mapped : mapped[i] = Throw THEN Throw
      ELSE Arr(mapped)

\* mutant: the reserved key is left in place
StripErrorKeyKept(erf) == erf

\* if ("error" in reconstructed.extraResponseFields) delete ....error
StripErrorKey(erf) ==
  IF Has(erf, "error") THEN DeleteProp(erf, "error") ELSE erf

\* if ("k" in error && typeof error.k === t) reconstructed.k = error.k
CopyIfOfType(rec, err, k, t) ==
  IF Has(err, k) /\ TypeOf(Get(err, k)) = t
  THEN SetProp(rec, k, Get(err, k))
  ELSE rec

RECURSIVE toIBaseError(_)

\* the branch taken when shallowIsIBaseError(error) is false
Reconstruct(err) ==
  LET msg == ReconstructedMessage(err)
      r0  == Obj("message" :> msg)
      r1  == CopyIfOfType(r0, err, "code", "string")
      r2  == CopyIfOfType(r1, err, "status", "number")
      hasMsgs == Has(err, "messages") /\ Get(err, "messages").type = "array"
      msgs == IF hasMsgs THEN ReconstructedMessages(Get(err, "messages"))
              ELSE Undefined
      r3  == IF hasMsgs /\ msgs # Throw THEN SetProp(r2, "messages", msgs)
             ELSE r2
      r4  == CopyIfOfType(r3, err, "stack", "string")
      r5  == CopyIfOfType(r4, err, "sensitive", "boolean")
      r6  == CopyIfOfType(r5, err, "silent", "boolean")
      hasCause == Has(err, "cause") /\ ~IsNullish(Get(err, "cause"))
      cause == IF hasCause THEN toIBaseError(Get(err, "cause")) ELSE Undefined
      r7  == IF hasCause /\ cause # Throw THEN SetProp(r6, "cause", cause)
             ELSE r6
      erf == Get(err, "extraResponseFields")
      r8  == IF /\ Has(err, "extraResponseFields")
                /\ ~IsNullish(erf)
                /\ TypeOf(erf) = "object"
             THEN SetProp(r7, "extraResponseFields", StripErrorKey(erf))
             ELSE r7
  IN  IF msg = Throw \/ msgs = Throw \/ cause = Throw THEN Throw ELSE r8

toIBaseError(err) ==
  IF TypeOf(err) # "object" \/ err = Null
  THEN Obj("message" :> String(err))
  ELSE IF ~shallowIsIBaseError(err) THEN Reconstruct(err)
  ELSE IF Has(err, "cause")
  THEN IF IsNullish(Get(err, "cause")) THEN DeleteProp(err, "cause")
       ELSE LET cause == toIBaseError(Get(err, "cause"))
            IN  IF cause = Throw THEN Throw ELSE SetProp(err, "cause", cause)
  ELSE err

-----------------------------------------------------------------------------
(* base.ts: the BaseError class *)

\* the own `stack` property the runtime gives to a new Error
CapturedStack ==
  StackText(<<[at |-> FALSE, text |-> "Error"],
              [at |-> TRUE, text |-> "new BaseError (base.ts)"],
              [at |-> TRUE, text |-> "main (app.ts)"]>>)

\* messages?.map((issue) => typeof issue === "string" ? { message: issue } : issue)
ConstructorMessages(messages) ==
  IF IsNullish(messages) THEN Undefined
  ELSE IF messages.type # "array" THEN Throw   \* .map is not a function
  ELSE Arr([i \in DOMAIN messages.items |->
              IF TypeOf(messages.items[i]) = "string"
              THEN Obj("message" :> messages.items[i])
              ELSE messages.items[i]])

\* new BaseError(message, options): only the seven destructured options are
\* read, every class field is assigned (possibly undefined)
BaseError(message, options) ==
  LET msgs  == ConstructorMessages(Get(options, "messages"))
      cause == IF Get(options, "cause") = Undefined THEN Undefined
               ELSE toIBaseError(Get(options, "cause"))
  IN  IF msgs = Throw \/ cause = Throw THEN Throw
      ELSE Obj([k \in {"message", "stack", "code", "status", "messages",
                       "cause", "sensitive", "silent", "extraResponseFields"} |->
                  CASE k = "message"  -> message
                    [] k = "stack"    -> CapturedStack
                    [] k = "messages" -> msgs
                    [] k = "cause"    -> cause
                    [] OTHER          -> Get(options, k)])

-----------------------------------------------------------------------------
(* reporting.ts: analyzeErrorStack *)

\* mutant: every node that defines the field overwrites the accumulator
NullishAssignOverwrite(acc, value) == IF IsNullish(value) THEN acc ELSE value

\* acc ??= value
NullishAssign(acc, value) == IF IsNullish(acc) THEN value ELSE acc

\* mutant: the value implied by status takes precedence over an explicit silent
SilentOfStatusFirst(currentError) ==
  IF Get(currentError, "status") # Undefined
  THEN Bool(Get(currentError, "status").type = "number"
            /\ Get(currentError, "status").n < 500)
  ELSE Get(currentError, "silent")

\* currentError.silent ??
\*   (currentError.status !== undefined ? currentError.status < 500 : undefined)
\* (a status of type IBaseError is a number; no other type is compared here)
SilentOf(currentError) ==
  Coalesce(Get(currentError, "silent"),
           IF Get(currentError, "status") # Undefined
           THEN Bool(Get(currentError, "status").type = "number"
                     /\ Get(currentError, "status").n < 500)
           ELSE Undefined)

\* mutant: the message is put in front, the stack comes out root cause first
PushMessageFront(causeStack, currentError) ==
  <<Get(currentError, "message")>> \o causeStack

\* result.causeStack.push(currentError.message)
PushMessage(causeStack, currentError) ==
  Append(causeStack, Get(currentError, "message"))

\* the loop over Object.entries(currentError.extraResponseFields)
MergeResponseFields(acc, currentError) ==
  LET erf  == Get(currentError, "extraResponseFields")
      keep == {k \in OwnKeys(erf) : k # "error" /\ ~Has(acc, k)}
  IN  IF erf = Undefined THEN acc
      ELSE Obj([k \in (DOMAIN acc.props) \cup keep |->
                  IF k \in DOMAIN acc.props THEN acc.props[k] ELSE Get(erf, k)])

\* the loop over Object.entries(currentError.extraErrorIdentifiers)
MergeErrorIdentifiers(acc, currentError) ==
  LET eei  == Get(currentError, "extraErrorIdentifiers")
      keep == {k \in OwnKeys(eei) : ~Has(acc, k)}
  IN  IF eei = Undefined THEN acc
      ELSE Obj([k \in (DOMAIN acc.props) \cup keep |->
                  IF k \in DOMAIN acc.props THEN acc.props[k] ELSE Get(eei, k)])

\* the accumulator `result` before the loop
EmptyAccumulator ==
  [causeStack |-> <<>>,
   status |-> Undefined, code |-> Undefined, validationIssues |-> Undefined,
   sensitive |-> Undefined, silent |-> Undefined,
   extraResponseFields |-> Obj(NoProps),
   extraErrorIdentifiers |-> Obj(NoProps)]

\* one iteration of the while loop, after currentError = currentError.cause
AnalyzeStep(acc, currentError) ==
  [causeStack            |-> PushMessage(acc.causeStack, currentError),
   status                |-> NullishAssign(acc.status, Get(currentError, "status")),
   code                  |-> NullishAssign(acc.code, Get(currentError, "code")),
   validationIssues      |-> NullishAssign(acc.validationIssues,
                                           Get(currentError, "messages")),
   sensitive             |-> NullishAssign(acc.sensitive,
                                           Get(currentError, "sensitive")),
   silent                |-> NullishAssign(acc.silent, SilentOf(currentError)),
   extraResponseFields   |-> MergeResponseFields(acc.extraResponseFields,
                                                 currentError),
   extraErrorIdentifiers |-> MergeErrorIdentifiers(acc.extraErrorIdentifiers,
                                                   currentError)]

\* while (currentError.cause !== undefined) { ... }, entered with
\* currentError = {cause: topError}
RECURSIVE AnalyzeLoop(_, _)
AnalyzeLoop(acc, currentError) ==
  LET next == Get(currentError, "cause")
  IN  IF next = Undefined THEN acc
      ELSE IF next = Null THEN Throw      \* reading .message of null
      ELSE LET step == AnalyzeStep(acc, next)
           IN  AnalyzeLoop(step, next)

\* lastStack is declared and never assigned
lastStack == Undefined

\* stack.split("\n").flatMap(...): the lines that start with "at ", marker removed
StackFrames(stack) ==
  LET frames == SelectSeq(stack.lines, LAMBDA line : line.at)
  IN  [i \in DOMAIN frames |-> frames[i].text]

analyzeErrorStack(topError) ==
  LET acc == AnalyzeLoop(EmptyAccumulator, Obj("cause" :> topError))
  IN  IF acc = Throw THEN Throw
      ELSE [message               |-> Get(topError, "message"),
            status                |-> Coalesce(acc.status, Num(500)),
            code                  |-> Coalesce(acc.code, Str("E_UNEXPECTED_ERROR")),
            validationIssues      |-> acc.validationIssues,
            causeStack            |-> acc.causeStack,
            sensitive             |-> Coalesce(acc.sensitive, Bool(FALSE)),
            silent                |-> Coalesce(acc.silent, Bool(FALSE)),
            rootStackTrace        |-> IF lastStack = Undefined THEN <<>>
                                      ELSE StackFrames(lastStack),
            extraResponseFields   |-> acc.extraResponseFields,
            extraErrorIdentifiers |-> acc.extraErrorIdentifiers]

-----------------------------------------------------------------------------
(* reporting.ts: serializeErrorReport and prepareReportForLogging *)

\* the condition of `v ? a : b`
Truthy(v) == v \notin {Undefined, Null, Bool(FALSE), Num(0), Str("")}

\* mutant: the properties of the first object win
SpreadFirstWins(a, b) ==
  Obj([k \in OwnKeys(a) \cup OwnKeys(b) |->
         IF k \in OwnKeys(a) THEN a.props[k] ELSE b.props[k]])

\* { ...a, ...b }
Spread(a, b) ==
  Obj([k \in OwnKeys(a) \cup OwnKeys(b) |->
         IF k \in OwnKeys(b) THEN b.props[k] ELSE a.props[k]])

serializeDefaults == Obj("includeStackTrace" :> Bool(FALSE))

\* mutant: the cause stack is sent whatever `sensitive` says
ResponseCauseStackAlways(report) == Arr(report.causeStack)

\* causeStack: report.sensitive ? undefined : report.causeStack
ResponseCauseStack(report) ==
  IF Truthy(report.sensitive) THEN Undefined ELSE Arr(report.causeStack)

\* mutant: the message sent is the one of the root cause
SerializedErrorOfRootCause(report, fullOptions) ==
  Obj("message" :> report.causeStack[Len(report.causeStack)]
      @@ "code" :> report.code
      @@ "validationIssues" :> report.validationIssues
      @@ "causeStack" :> ResponseCauseStack(report)
      @@ "rootStackTrace" :>
           IF Truthy(Get(fullOptions, "includeStackTrace"))
           THEN Arr(report.rootStackTrace) ELSE Undefined)

\* the object literal under the key `error`
SerializedError(report, fullOptions) ==
  Obj("message" :> report.message
      @@ "code" :> report.code
      @@ "validationIssues" :> report.validationIssues
      @@ "causeStack" :> ResponseCauseStack(report)
      @@ "rootStackTrace" :>
           IF Truthy(Get(fullOptions, "includeStackTrace"))
           THEN Arr(report.rootStackTrace) ELSE Undefined)

\* serializeErrorReport(report, options = {})
serializeErrorReport(report, options) ==
  LET fullOptions == Spread(serializeDefaults,
                            IF options = Undefined THEN Obj(NoProps) ELSE options)
  IN  Spread(Obj("error" :> SerializedError(report, fullOptions)),
             report.extraResponseFields)

\* mutant: code and status are left out unless asked for
defaultPrepareErrorOptionsOff == Obj("includeCodeAndStatus" :> Bool(FALSE))

defaultPrepareErrorOptions == Obj("includeCodeAndStatus" :> Bool(TRUE))

\* one line of the log entry: a text taken as it is (the message, a heading)
TextLine(text) == [line |-> "${}", text |-> text]

\* `Error code: ${report.code}, status: ${report.status}`
CodeAndStatusLine(report) ==
  [line |-> "Error code: ${}, status: ${}",
   code |-> String(report.code), status |-> String(report.status)]

\* `    ${c}`
IndentedLine(text) == [line |-> "    ${}", text |-> text]

\* `    ${k}: ${JSON.stringify(v)}`
IdentifierLine(k, v) ==
  [line |-> "    ${}: ${}", key |-> k, json |-> JSONStringify(v)]

\* prepareReportForLogging(report, options = defaultPrepareErrorOptions): the
\* joined lines, in order; the lines of Object.entries(extraErrorIdentifiers)
\* come last and are kept as a set (the object model has no key order)
prepareReportForLogging(report, options) ==
  LET opts == IF options = Undefined THEN defaultPrepareErrorOptions ELSE options
      eei  == report.extraErrorIdentifiers
  IN  IF \E k \in OwnKeys(eei) : JSONStringify(eei.props[k]) = Throw THEN Throw
      ELSE
        [type |-> "string",
         lines |->
           <<TextLine(report.message)>>
           \o (IF Truthy(Get(opts, "includeCodeAndStatus"))
               THEN <<CodeAndStatusLine(report)>> ELSE <<>>)
           \o <<TextLine(Str("Cause stack:"))>>
           \o [i \in DOMAIN report.causeStack |->
                 IndentedLine(report.causeStack[i])]
           \o <<TextLine(Str("Root stack trace:"))>>
           \o [i \in DOMAIN report.rootStackTrace |->
                 IndentedLine(Str(report.rootStackTrace[i]))]
           \o <<TextLine(Str("Extra error identifiers:"))>>,
         identifierLines |->
           {IdentifierLine(k, eei.props[k]) : k \in OwnKeys(eei)}]

\* handle(error, ctx) of the exception handler: the payload sent to the client
handle(caught, inProduction) ==
  LET normalised == toIBaseError(caught)
      report     == IF normalised = Throw THEN Throw
                    ELSE analyzeErrorStack(normalised)
  IN  IF report = Throw THEN Throw
      ELSE serializeErrorReport(
             report, Obj("includeStackTrace" :> Bool(~inProduction)))

\* the state of the argument object after toIBaseError(err) has run: the
\* shallow-valid branch rewrites `cause` in place; the reconstructing branch
\* shares extraResponseFields with its argument and deletes "error" from it,
\* and normalises the argument's cause object
RECURSIVE InputAfter(_)
InputAfter(err) ==
  IF TypeOf(err) # "object" \/ err = Null THEN err
  ELSE IF ~shallowIsIBaseError(err)
  THEN LET hasMsgs == Has(err, "messages") /\ Get(err, "messages").type = "array"
           hasCause == Has(err, "cause") /\ ~IsNullish(Get(err, "cause"))
           erf == Get(err, "extraResponseFields")
           e1 == IF hasCause
                 THEN SetProp(err, "cause", InputAfter(Get(err, "cause")))
                 ELSE err
       IN  IF \/ ReconstructedMessage(err) = Throw
              \/ hasMsgs /\ ReconstructedMessages(Get(err, "messages")) = Throw
           THEN err
           ELSE IF hasCause /\ toIBaseError(Get(err, "cause")) = Throw THEN e1
           ELSE IF /\ Has(err, "extraResponseFields")
                   /\ ~IsNullish(erf)
                   /\ TypeOf(erf) = "object"
           THEN SetProp(e1, "extraResponseFields", StripErrorKey(erf))
           ELSE e1
  ELSE IF Has(err, "cause")
  THEN IF IsNullish(Get(err, "cause")) THEN DeleteProp(err, "cause")
       ELSE IF toIBaseError(Get(err, "cause")) = Throw
       THEN SetProp(err, "cause", InputAfter(Get(err, "cause")))
       ELSE SetProp(err, "cause", toIBaseError(Get(err, "cause")))
  ELSE err

-----------------------------------------------------------------------------
(* install-context.ts: Promise.prototype.addErrorContext *)

\* a function of no arguments that returns v
Fn(v) == [type |-> "function", returns |-> v]

\* the three states of a promise
Pending      == [state |-> "pending", value |-> Undefined]
Fulfilled(x) == [state |-> "fulfilled", value |-> x]
Rejected(e)  == [state |-> "rejected", value |-> e]

\* the TypeError object a throwing call leaves behind
ThrownTypeError ==
  Obj("message" :> Str("TypeError")
      @@ "stack" :> StackText(<<[at |-> FALSE, text |-> "TypeError"],
                                [at |-> TRUE, text |-> "toIBaseError (base.ts)"]>>))

\* what a caller catches when a call ends with v: the value a `throw`
\* statement gave, or the TypeError of an abrupt completion
Thrown(v) == IF v = Throw THEN ThrownTypeError ELSE v

\* the callback given to this.catch: what it returns, and how many times it
\* called the context
ContextHandler(context, caught) ==
  LET spec    == IF TypeOf(context) = "function" THEN context.returns ELSE context
      created == IF TypeOf(spec) = "string"
                 THEN BaseError(spec, Obj("cause" :> caught))
                 ELSE BaseError(Get(spec, "message"),
                                Spread(spec, Obj("cause" :> caught)))
  IN  [calls   |-> IF TypeOf(context) = "function" THEN 1 ELSE 0,
       promise |-> Rejected(Thrown(created))]

\* mutant: the callback runs however the promise settled
PromiseCatchAlways(promise, context) == ContextHandler(context, promise.value)

\* the settlement of promise.catch(callback) once promise has settled
PromiseCatch(promise, context) ==
  IF promise.state = "fulfilled" THEN [calls |-> 0, promise |-> promise]
  ELSE ContextHandler(context, promise.value)

-----------------------------------------------------------------------------
(* The callers: values that application code throws and hands to the library *)

\* marks a property the literal leaves out
Absent == [type |-> "absent"]

Messages == <<"hi", "helo", "hey", "yo", "ahoy">>

\* number of objects on the cause chain of v
RECURSIVE Depth(_)
Depth(v) == IF v.type = "object" THEN 1 + Depth(Get(v, "cause")) ELSE 0

\* the message a throw site gives to the error that wraps v
MessageFor(v) == Str(Messages[Depth(v) + 1])

Issue(text) == Obj("message" :> Str(text))

\* values a throw site can throw that are not objects
Primitives == {Null, Str("helo")}

\* property values that respect the types of IBaseError / BaseErrorOptions
TypedFields ==
  {<<"code", Str("E_BRUH_MOMENT")>>, <<"code", Str("E_LO_ZELO")>>,
   <<"status", Num(418)>>, <<"status", Num(500)>>,
   <<"messages", Arr(<<Issue("bruh")>>)>>, <<"messages", Arr(<<Issue("elo")>>)>>,
   <<"sensitive", Bool(TRUE)>>, <<"sensitive", Bool(FALSE)>>,
   <<"silent", Bool(TRUE)>>, <<"silent", Bool(FALSE)>>,
   <<"extraResponseFields", Obj("a" :> Num(1))>>,
   <<"extraResponseFields", Obj("a" :> Num(2) @@ "toString" :> Num(1))>>,
   <<"extraResponseFields", Obj("b" :> Num(2) @@ "error" :> Num(1))>>,
   <<"extraErrorIdentifiers", Obj("prop1" :> Num(1))>>,
   <<"extraErrorIdentifiers", Obj("prop1" :> Num(2) @@ "prop2" :> Num(2))>>}

\* property values of foreign error objects: any type, any content
ForeignFields ==
  {<<"message", Num(7)>>, <<"message", Absent>>,
   <<"code", Undefined>>,
   <<"status", BigInt>>,
   <<"messages", Arr(<<Issue("bruh")>>)>>,
   <<"messages", Arr(<<Issue("bruh"), Str("elo")>>)>>,
   <<"messages", Arr(<<Null>>)>>,
   <<"messages", Arr(<<Obj("message" :> Num(7))>>)>>,
   <<"messages", Arr(<<BigInt>>)>>,
   <<"stack", Num(7)>>,
   <<"sensitive", Bool(TRUE)>>,
   <<"silent", Str("no")>>,
   <<"extraResponseFields", Obj("a" :> Num(1))>>,
   <<"extraResponseFields", Obj("a" :> Num(1) @@ "error" :> Num(1))>>,
   <<"extraResponseFields", Null>>,
   <<"extraErrorIdentifiers", Obj("message" :> Num(1))>>}

\* { message, ...fields } with the properties marked Absent left out
LiteralProps(message, fs) ==
  LET keys == {k \in (DOMAIN fs) \cup {"message"} :
                 ~(k \in DOMAIN fs /\ fs[k] = Absent)}
  IN  [k \in keys |-> IF k \in DOMAIN fs THEN fs[k] ELSE message]

Init ==
  /\ error = Undefined
  /\ fields = NoProps
  /\ built = 0
  /\ given = <<>>
  /\ called = ""
  /\ arg = Undefined
  /\ result = Undefined
  /\ promises = <<Pending>>
  /\ handlers = <<>>

\* the throw site writes one more property of the error it is about to create
SetField(alphabet) ==
  /\ called = ""
  /\ built < MaxBuilt
  /\ \E kv \in alphabet :
       /\ kv[1] \notin DOMAIN fields
       /\ fields' = [k \in (DOMAIN fields) \cup {kv[1]} |->
                       IF k = kv[1] THEN kv[2] ELSE fields[k]]
  /\ built' = built + 1
  /\ UNCHANGED <<promises, handlers, error, given, called, arg, result>>

SetForeignField == SetField(ForeignFields)
SetOption == SetField(TypedFields)

\* throw <primitive>
ThrowPrimitive ==
  /\ called = ""
  /\ error = Undefined
  /\ fields = NoProps
  /\ error' \in Primitives
  /\ UNCHANGED <<promises, handlers, fields, built, given, called, arg, result>>

\* throw { message, ...fields } or throw { message, ...fields, cause: error }
\* where error is whatever was caught: nothing, a primitive, a foreign object
ThrowForeignObject ==
  /\ called = ""
  /\ Depth(error) < MaxDepth
  /\ \E withCause \in BOOLEAN :
       /\ ~withCause => error = Undefined
       /\ LET props == LiteralProps(MessageFor(error), fields)
          IN  error' = IF withCause THEN SetProp(Obj(props), "cause", error)
                       ELSE Obj(props)
  /\ fields' = NoProps
  /\ given' = <<[by |-> "literal", options |-> fields]>> \o given
  /\ UNCHANGED <<promises, handlers, built, called, arg, result>>

\* throw "helo"
ThrowString ==
  /\ called = ""
  /\ error = Undefined
  /\ fields = NoProps
  /\ error' = Str("helo")
  /\ UNCHANGED <<promises, handlers, fields, built, given, called, arg, result>>

\* throw { message, ...fields } or, around a caught object literal,
\* throw { message, ...fields, cause: error }
ThrowObject ==
  /\ called = ""
  /\ Depth(error) < MaxChain
  /\ \/ error = Undefined
     \/ error.type = "object" /\ given[1].by = "literal"
  /\ LET props == LiteralProps(MessageFor(error), fields)
     IN  error' = IF error = Undefined THEN Obj(props)
                  ELSE SetProp(Obj(props), "cause", error)
  /\ fields' = NoProps
  /\ given' = <<[by |-> "literal", options |-> fields]>> \o given
  /\ UNCHANGED <<promises, handlers, built, called, arg, result>>

\* throw new BaseError(message, { ...fields, cause: error }) where error is
\* nothing, a caught string or a caught BaseError
NewBaseError ==
  /\ called = ""
  /\ Depth(error) < MaxChain
  /\ error.type = "object" => given[1].by = "BaseError"
  /\ LET created == BaseError(MessageFor(error),
                              SetProp(Obj(fields), "cause", error))
     IN  /\ created # Throw
         /\ error' = created
  /\ fields' = NoProps
  /\ given' = <<[by |-> "BaseError", options |-> fields]>> \o given
  /\ UNCHANGED <<promises, handlers, built, called, arg, result>>

\* the caller has a value in hand and no half-written literal
Ready == called = "" /\ fields = NoProps

CallShallowIsIBaseError ==
  /\ Ready
  /\ called' = "shallowIsIBaseError"
  /\ arg' = error
  /\ result' = Bool(shallowIsIBaseError(error))
  /\ UNCHANGED <<promises, handlers, error, fields, built, given>>

CallIsIBaseError ==
  /\ Ready
  /\ called' = "isIBaseError"
  /\ arg' = error
  /\ result' = Bool(isIBaseError(error))
  /\ UNCHANGED <<promises, handlers, error, fields, built, given>>

CallToIBaseError ==
  /\ Ready
  /\ called' = "toIBaseError"
  /\ arg' = error
  /\ result' = toIBaseError(error)
  /\ error' = InputAfter(error)
  /\ UNCHANGED <<promises, handlers, fields, built, given>>

\* analyzeErrorStack(topError: IBaseError)
CallAnalyzeErrorStack ==
  /\ Ready
  /\ TypeOf(error) = "object" /\ error # Null
  /\ called' = "analyzeErrorStack"
  /\ arg' = error
  /\ result' = analyzeErrorStack(error)
  /\ UNCHANGED <<promises, handlers, error, fields, built, given>>

\* the exception handler receives the caught value and answers the client:
\* serializeErrorReport(analyzeErrorStack(toIBaseError(error)), options)
CallHandle ==
  /\ Ready
  /\ called' = "handle"
  /\ arg' = error
  /\ \E inProduction \in BOOLEAN : result' = handle(error, inProduction)
  /\ error' = InputAfter(error)
  /\ UNCHANGED <<promises, handlers, fields, built, given>>

\* foreign values of any shape, validated, normalised and answered
Next ==
  \/ SetForeignField
  \/ ThrowPrimitive
  \/ ThrowForeignObject
  \/ CallShallowIsIBaseError
  \/ CallIsIBaseError
  \/ CallToIBaseError
  \/ CallHandle

Spec == Init /\ [][Next]_vars

\* well-typed chains, built from literals and BaseError, then analysed
NextReport ==
  \/ SetOption
  \/ ThrowString
  \/ ThrowObject
  \/ NewBaseError
  \/ CallAnalyzeErrorStack

SpecReport == Init /\ [][NextReport]_vars

\* the options a caller of serializeErrorReport passes (none, or a partial bag)
SerializeOptions ==
  {Undefined, Obj(NoProps),
   Obj("includeStackTrace" :> Bool(TRUE)), Obj("includeStackTrace" :> Bool(FALSE))}

\* the options a caller of prepareReportForLogging passes
PrepareOptions ==
  {Undefined,
   Obj("includeCodeAndStatus" :> Bool(TRUE)),
   Obj("includeCodeAndStatus" :> Bool(FALSE))}

\* frames a caller that builds the ErrorReport itself puts in rootStackTrace
CallerFrames == <<"handle (handler.ts)", "main (app.ts)">>

\* the fields of IBaseError that reach a response or a log entry
ReportedFields ==
  {<<"code", Str("E_BRUH_MOMENT")>>,
   <<"status", Num(418)>>,
   <<"messages", Arr(<<Issue("bruh")>>)>>,
   <<"sensitive", Bool(TRUE)>>, <<"sensitive", Bool(FALSE)>>,
   <<"silent", Bool(TRUE)>>,
   <<"extraResponseFields", Obj("a" :> Num(1))>>,
   <<"extraErrorIdentifiers", Obj("prop1" :> Num(1))>>}

SetReportedField == SetField(ReportedFields)

\* the two arguments of a reporter call
Arguments(report, options) ==
  [type |-> "arguments", report |-> report, options |-> options]

\* serializeErrorReport(report, options) on the report just produced, or on
\* a copy of it whose rootStackTrace the caller filled in
CallSerializeErrorReport ==
  /\ called = "analyzeErrorStack"
  /\ result # Throw
  /\ \E options \in SerializeOptions :
     \E frames \in {result.rootStackTrace, CallerFrames} :
       LET report == [result EXCEPT !.rootStackTrace = frames]
       IN  /\ arg' = Arguments(report, options)
           /\ result' = serializeErrorReport(report, options)
  /\ called' = "serializeErrorReport"
  /\ UNCHANGED <<promises, handlers, error, fields, built, given>>

\* prepareReportForLogging(report, options), same reports
CallPrepareReportForLogging ==
  /\ called = "analyzeErrorStack"
  /\ result # Throw
  /\ \E options \in PrepareOptions :
     \E frames \in {result.rootStackTrace, CallerFrames} :
       LET report == [result EXCEPT !.rootStackTrace = frames]
       IN  /\ arg' = Arguments(report, options)
           /\ result' = prepareReportForLogging(report, options)
  /\ called' = "prepareReportForLogging"
  /\ UNCHANGED <<promises, handlers, error, fields, built, given>>

\* option bags a caller of the constructor writes, `cause` left aside
ConstructorOptions ==
  {Obj(NoProps),
   Obj("code" :> Str("E_LO_ZELO")
       @@ "messages" :> Arr(<<Str("bruh"), Issue("elo")>>)),
   Obj("extraResponseFields" :> Obj("a" :> Num(1))),
   Obj("extraResponseFields" :> Obj("b" :> Num(2) @@ "error" :> Num(1)))}

\* new BaseError("context", { ...options, cause: error }) around whatever was
\* caught (nothing caught: cause is undefined); the constructor normalises
\* the caught object in place
CallNewBaseError ==
  /\ Ready
  /\ called' = "BaseError"
  /\ arg' = error
  /\ \E options \in ConstructorOptions :
       result' = BaseError(Str("context"), SetProp(options, "cause", error))
  /\ error' = IF error = Undefined THEN error ELSE InputAfter(error)
  /\ UNCHANGED <<promises, handlers, fields, built, given>>

\* foreign values of any shape, wrapped by the constructor
NextConstruct ==
  \/ SetForeignField
  \/ ThrowPrimitive
  \/ ThrowForeignObject
  \/ CallNewBaseError

SpecConstruct == Init /\ [][NextConstruct]_vars

\* what an asynchronous operation can resolve with
Resolutions == {Str("elo zelo"), Num(42)}

\* new Error(message)
ErrorObject(message) == Obj("message" :> Str(message) @@ "stack" :> CapturedStack)

\* what an asynchronous operation can reject with
Rejections ==
  {Undefined, Null, Str("hi"), ErrorObject("hi"),
   BaseError(Str("hi"), Obj("status" :> Num(404))),
   Obj("message" :> Num(7)),
   Obj("message" :> Str("hi") @@ "messages" :> Arr(<<Null>>))}

\* the context values of the callers: a string, an object, a function
ContextSpecs ==
  {Str("context"),
   Obj("message" :> Str("context") @@ "code" :> Str("E_LO_ZELO")),
   Obj("message" :> Str("Record not found") @@ "status" :> Num(404)
       @@ "cause" :> Str("mine"))}

Contexts == ContextSpecs \cup {Fn(spec) : spec \in ContextSpecs}

callerVars == <<error, fields, built, given, called, arg, result>>

\* promise.addErrorContext(context) on the last promise of the chain
AddErrorContext ==
  /\ Len(handlers) < MaxContexts
  /\ \E context \in Contexts :
       handlers' = Append(handlers,
                          [context |-> context, calls |-> 0, caught |-> Absent])
  /\ promises' = Append(promises, Pending)
  /\ UNCHANGED callerVars

\* the operation completes with a value
Resolve ==
  /\ promises[1] = Pending
  /\ \E x \in Resolutions : promises' = [promises EXCEPT ![1] = Fulfilled(x)]
  /\ UNCHANGED <<handlers, callerVars>>

\* the operation fails with a thrown value
Reject ==
  /\ promises[1] = Pending
  /\ \E e \in Rejections : promises' = [promises EXCEPT ![1] = Rejected(e)]
  /\ UNCHANGED <<handlers, callerVars>>

\* the reaction job of promises[i].catch(...): it settles promises[i + 1];
\* the BaseError constructor normalises the caught object in place
React(i) ==
  /\ i \in DOMAIN handlers
  /\ promises[i].state # "pending"
  /\ promises[i + 1] = Pending
  /\ \E settled \in {PromiseCatch(promises[i], handlers[i].context)} :
     LET caught == promises[i].value
     IN  /\ promises' =
              [promises EXCEPT
                 ![i + 1] = settled.promise,
                 ![i] = IF promises[i].state = "rejected" /\ caught # Undefined
                        THEN Rejected(InputAfter(caught))
                        ELSE @]
         /\ handlers' =
              [handlers EXCEPT
                 ![i].calls = @ + settled.calls,
                 ![i].caught = IF promises[i].state = "rejected"
                               THEN caught ELSE @]
  /\ UNCHANGED callerVars

RunReaction == \E i \in 1..MaxContexts : React(i)

\* asynchronous operations with error context attached
NextContext ==
  \/ AddErrorContext
  \/ Resolve
  \/ Reject
  \/ RunReaction

SpecContext == Init /\ [][NextContext]_vars

\* a reaction job of an operation that resolved
RunPassThrough == promises[1].state = "fulfilled" /\ RunReaction

\* the job queue runs every reaction job that is ready; the condition is
\* stated for the jobs of a resolved operation, which stay ready until run
SpecContextFair == SpecContext /\ WF_vars(RunPassThrough)

\* chains analysed and then reported to the client and to the log
NextRespond ==
  \/ SetReportedField
  \/ ThrowObject
  \/ NewBaseError
  \/ CallAnalyzeErrorStack
  \/ CallSerializeErrorReport
  \/ CallPrepareReportForLogging

SpecRespond == Init /\ [][NextRespond]_vars

-----------------------------------------------------------------------------
(* Vocabulary of the properties *)

\* the objects of the cause chain of v, top first
RECURSIVE ChainNodes(_)
ChainNodes(v) ==
  IF v.type = "object" THEN <<v>> \o ChainNodes(Get(v, "cause")) ELSE <<>>

\* a property counts as present when the key is there and holds a value
Present(v, k) == Has(v, k) /\ Get(v, k) # Undefined

\* the field names of the error shape
ReservedFieldNames ==
  {"message", "code", "status", "messages", "stack", "cause", "sensitive",
   "silent", "extraResponseFields", "extraErrorIdentifiers"}

\* the shape of one node as the interface documents it, cause left aside
ShapeOk(v) ==
  /\ v.type = "object"
  /\ Get(v, "message").type = "string"
  /\ Present(v, "code") => Get(v, "code").type = "string"
  /\ Present(v, "status") => Get(v, "status").type = "number"
  /\ Present(v, "messages") =>
       /\ Get(v, "messages").type = "array"
       /\ \A i \in DOMAIN Get(v, "messages").items :
            LET issue == Get(v, "messages").items[i]
            IN  issue.type = "object" /\ Get(issue, "message").type = "string"
  /\ Present(v, "stack") => Get(v, "stack").type = "string"
  /\ Present(v, "sensitive") => Get(v, "sensitive").type = "boolean"
  /\ Present(v, "silent") => Get(v, "silent").type = "boolean"
  /\ Present(v, "extraResponseFields") =>
       /\ Get(v, "extraResponseFields").type \in {"object", "array"}
       /\ "error" \notin OwnKeys(Get(v, "extraResponseFields"))

\* values a `cause` can be swapped for
CauseVariants ==
  {Null, Str("helo"), Num(42), Obj(NoProps), Obj("message" :> Num(7)),
   Obj("message" :> Str("hi"))}

\* no node of the chain of v carries extraResponseFields.error
NoErrorKey(v) ==
  \A i \in DOMAIN ChainNodes(v) :
    "error" \notin OwnKeys(Get(ChainNodes(v)[i], "extraResponseFields"))

\* some / no node of the chain of v has a reserved name in extraErrorIdentifiers
ReservedIdentifierAt(node) ==
  OwnKeys(Get(node, "extraErrorIdentifiers")) \cap ReservedFieldNames # {}

NoReservedIdentifier(v) ==
  \A i \in DOMAIN ChainNodes(v) : ~ReservedIdentifierAt(ChainNodes(v)[i])

-----------------------------------------------------------------------------
(* Properties of validation and normalisation, checked under Spec *)

\* C1: whenever toIBaseError returns a value, that value passes isIBaseError
\* (every node of the returned chain passes shallowIsIBaseError).
C1_NormalizedConforms ==
  (called = "toIBaseError" /\ result # Throw) => isIBaseError(result)

\* C2: toIBaseError returns a value for every input, it never throws.
C2_NeverThrows ==
  called = "toIBaseError" => result # Throw

C4_NoErrorKeyAfterNormalize ==
  /\ (called = "toIBaseError" /\ result # Throw) => NoErrorKey(result)
  /\ (called = "isIBaseError" /\ result = Bool(TRUE)) => NoErrorKey(arg)

\* C4 witness: a normalised input that had extraResponseFields.error below
\* the top error
C4_Witness ==
  /\ called = "toIBaseError"
  /\ result # Throw
  /\ Len(ChainNodes(arg)) = 2
  /\ "error" \in OwnKeys(Get(ChainNodes(arg)[2], "extraResponseFields"))
  /\ "a" \in OwnKeys(Get(ChainNodes(result)[2], "extraResponseFields"))

\* C5: an object with a reserved field name among the keys of its
\* extraErrorIdentifiers fails shallowIsIBaseError, and no node returned by
\* toIBaseError has such a key.
C5_ReservedIdentifiersRejected ==
  /\ (called = "shallowIsIBaseError" /\ arg.type = "object"
        /\ ReservedIdentifierAt(arg)) => result = Bool(FALSE)
  /\ (called = "toIBaseError" /\ result # Throw) => NoReservedIdentifier(result)

-----------------------------------------------------------------------------
(* Properties of the analyser, checked under SpecReport *)

\* the value of field k at the node closest to the top that defines it
FirstDefined(v, k, default) ==
  LET nodes   == ChainNodes(v)
      defines == {i \in DOMAIN nodes : Get(nodes[i], k) # Undefined}
  IN  IF defines = {} THEN default
      ELSE Get(nodes[CHOOSE i \in defines : \A j \in defines : i <= j], k)

Analysed == called = "analyzeErrorStack" /\ isIBaseError(arg)

\* v has the static type IBaseError: conformant, except that the type
\* ExtraResponseFields cannot rule out the key "error"
HasIBaseErrorType(v) ==
  \A i \in DOMAIN ChainNodes(v) :
    LET node == ChainNodes(v)[i]
    IN  /\ shallowIsIBaseError(DeleteProp(node, "extraResponseFields"))
        /\ Get(node, "extraResponseFields").type \in {"undefined", "object"}
        /\ Get(node, "cause").type \in {"undefined", "object"}

\* C6: on a conformant chain, status, code, validationIssues and sensitive are
\* each the value of the node closest to the top that defines the field, and
\* 500, "E_UNEXPECTED_ERROR", (none), false when no node defines it.
C6_FirstDefinedWins ==
  Analysed =>
    /\ result # Throw
    /\ result.status = FirstDefined(arg, "status", Num(500))
    /\ result.code = FirstDefined(arg, "code", Str("E_UNEXPECTED_ERROR"))
    /\ result.validationIssues = FirstDefined(arg, "messages", Undefined)
    /\ result.sensitive = FirstDefined(arg, "sensitive", Bool(FALSE))

\* C6 witness: chain [A, B, C], A.status unset, B.status 418, C.status 500
C6_Witness ==
  /\ Analysed
  /\ Len(ChainNodes(arg)) = 3
  /\ Get(ChainNodes(arg)[1], "status") = Undefined
  /\ Get(ChainNodes(arg)[2], "status") = Num(418)
  /\ Get(ChainNodes(arg)[3], "status") = Num(500)
  /\ result.status = Num(418)

\* the silence a chain resolves to: decided by the first node from the top
\* that defines silent or status
ResolvedSilent(v) ==
  LET nodes   == ChainNodes(v)
      decides == {i \in DOMAIN nodes :
                    \/ Get(nodes[i], "silent") # Undefined
                    \/ Get(nodes[i], "status") # Undefined}
      first   == nodes[CHOOSE i \in decides : \A j \in decides : i <= j]
  IN  IF decides = {} THEN FALSE
      ELSE IF Get(first, "silent") # Undefined THEN Get(first, "silent").b
      ELSE Get(first, "status").n < 500

\* C7: silent is decided by the first node from the top that defines silent
\* or status: its explicit silent if it has one, else status < 500; false
\* when no node defines either.
C7_SilentResolution ==
  Analysed => (result # Throw /\ result.silent = Bool(ResolvedSilent(arg)))

\* C7 witness: the top node defines neither, the node below has a status
\* below 500 and an explicit silent = false, which wins
C7_Witness ==
  /\ Analysed
  /\ Len(ChainNodes(arg)) >= 2
  /\ Get(ChainNodes(arg)[1], "silent") = Undefined
  /\ Get(ChainNodes(arg)[1], "status") = Undefined
  /\ Get(ChainNodes(arg)[2], "silent") = Bool(FALSE)
  /\ Get(ChainNodes(arg)[2], "status") = Num(418)
  /\ result.silent = Bool(FALSE)

\* number of cause links that lead from v to the root cause
RECURSIVE CauseLinks(_)
CauseLinks(v) ==
  IF Get(v, "cause") = Undefined THEN 0 ELSE 1 + CauseLinks(Get(v, "cause"))

\* C8: on a conformant chain analyzeErrorStack returns, and causeStack is the
\* sequence of the nodes' messages from the top error to the root cause; its
\* length is 1 + the number of cause links and its head is the report's
\* message, the message of the top error.
C8_CauseStackIsMessages ==
  Analysed =>
    /\ result # Throw
    /\ Len(result.causeStack) = 1 + CauseLinks(arg)
    /\ \A i \in 1..Len(result.causeStack) :
         result.causeStack[i] = Get(ChainNodes(arg)[i], "message")
    /\ result.causeStack[1] = result.message
    /\ result.message = Get(arg, "message")

\* C8 witness: a chain of three errors reported top first
C8_Witness ==
  /\ Analysed
  /\ CauseLinks(arg) = 2
  /\ result.causeStack = <<Str("hey"), Str("helo"), Str("hi")>>

\* the chain was built by BaseError constructors only
BuiltByBaseError ==
  /\ given # <<>>
  /\ \A i \in DOMAIN given : given[i].by = "BaseError"
  /\ Len(given) = Len(ChainNodes(arg))

\* the extraErrorIdentifiers option given at level i (top = 1)
GivenIdentifiers(i) ==
  IF "extraErrorIdentifiers" \in DOMAIN given[i].options
  THEN given[i].options["extraErrorIdentifiers"]
  ELSE Obj(NoProps)

\* C9: for a chain built with the BaseError constructor, the report's
\* extraErrorIdentifiers has every key given at any level, with the value of
\* the level closest to the top.
C9_IdentifiersCollected ==
  (called = "analyzeErrorStack" /\ BuiltByBaseError) =>
    \A i \in DOMAIN given : \A k \in OwnKeys(GivenIdentifiers(i)) :
      /\ k \in OwnKeys(result.extraErrorIdentifiers)
      /\ (\A j \in 1..(i - 1) : k \notin OwnKeys(GivenIdentifiers(j))) =>
           result.extraErrorIdentifiers.props[k] = GivenIdentifiers(i).props[k]

\* the keys some node of the chain of v has in extraResponseFields
ResponseKeys(v) ==
  UNION {OwnKeys(Get(ChainNodes(v)[i], "extraResponseFields")) :
           i \in DOMAIN ChainNodes(v)}

\* the value of key k at the node closest to the top that has it
TopMostResponseValue(v, k) ==
  LET nodes == ChainNodes(v)
      has   == {i \in DOMAIN nodes :
                  k \in OwnKeys(Get(nodes[i], "extraResponseFields"))}
  IN  Get(nodes[CHOOSE i \in has : \A j \in has : i <= j],
          "extraResponseFields").props[k]

\* C10: the report's extraResponseFields has exactly the keys other than
\* "error" found in the extraResponseFields of some node, each with the whole
\* value of the node closest to the top that has the key.
C10_ResponseFieldsMerged ==
  (called = "analyzeErrorStack" /\ HasIBaseErrorType(arg)) =>
    /\ result # Throw
    /\ OwnKeys(result.extraResponseFields) = ResponseKeys(arg) \ {"error"}
    /\ \A k \in OwnKeys(result.extraResponseFields) :
         result.extraResponseFields.props[k] = TopMostResponseValue(arg, k)

\* the deepest node of the chain of v: the root cause
RootCause(v) == ChainNodes(v)[Len(ChainNodes(v))]

\* C11: rootStackTrace holds, in order, the "at " lines of the stack of the
\* deepest node of the chain (marker stripped); it is non-empty whenever that
\* stack has such a line.
C11_RootStackFromRootCause ==
  Analysed =>
    /\ result # Throw
    /\ result.rootStackTrace =
         IF Get(RootCause(arg), "stack").type = "string"
         THEN StackFrames(Get(RootCause(arg), "stack"))
         ELSE <<>>

-----------------------------------------------------------------------------
(* Properties of the reporters, checked under SpecRespond *)

\* the object under the key `error` of a response
ResponseError(response) == Get(response, "error")

\* the caller asked for the stack trace
StackTraceRequested(options) ==
  options # Undefined /\ Get(options, "includeStackTrace") = Bool(TRUE)

\* C12: the response's `error` has the report's message, code and
\* validationIssues; error.causeStack is undefined when report.sensitive is
\* true and the report's causeStack otherwise; error.rootStackTrace is the
\* report's rootStackTrace when includeStackTrace is true and undefined
\* otherwise (options omitted included); every key of the report's
\* extraResponseFields is at the top level with the report's value.
C12_SerializedReport ==
  called = "serializeErrorReport" =>
    /\ result.type = "object"
    /\ Get(ResponseError(result), "message") = arg.report.message
    /\ Get(ResponseError(result), "code") = arg.report.code
    /\ Get(ResponseError(result), "validationIssues") = arg.report.validationIssues
    /\ Get(ResponseError(result), "causeStack") =
         IF arg.report.sensitive = Bool(TRUE) THEN Undefined
         ELSE Arr(arg.report.causeStack)
    /\ Get(ResponseError(result), "rootStackTrace") =
         IF StackTraceRequested(arg.options) THEN Arr(arg.report.rootStackTrace)
         ELSE Undefined
    /\ \A k \in OwnKeys(arg.report.extraResponseFields) :
         /\ k \in OwnKeys(result)
         /\ result.props[k] = arg.report.extraResponseFields.props[k]

\* C12 witness: a sensitive report with frames and an extra field, serialised
\* with the stack trace requested
C12_Witness ==
  /\ called = "serializeErrorReport"
  /\ arg.report.sensitive = Bool(TRUE)
  /\ arg.report.rootStackTrace = CallerFrames
  /\ StackTraceRequested(arg.options)
  /\ Len(arg.report.causeStack) = 2
  /\ OwnKeys(result) = {"error", "a"}
  /\ Get(ResponseError(result), "causeStack") = Undefined
  /\ Get(ResponseError(result), "rootStackTrace") = Arr(CallerFrames)

-----------------------------------------------------------------------------
(* Properties of the whole pipeline, checked under Spec *)

\* the handler answered the caught value `arg` with the response `result`
Answered == called = "handle" /\ result # Throw

\* C13: in serializeErrorReport(analyzeErrorStack(toIBaseError(v))) the
\* top-level `error` of the response is the serialized error object, with the
\* top error's message and the aggregated code; no extraResponseFields entry
\* of any node of the chain, one keyed "error" included, takes its place.
C13_ErrorKeyNotOverridden ==
  Answered =>
    /\ ResponseError(result).type = "object"
    /\ OwnKeys(ResponseError(result)) =
         {"message", "code", "validationIssues", "causeStack", "rootStackTrace"}
    /\ Get(ResponseError(result), "message") = Get(toIBaseError(arg), "message")
    /\ (arg.type = "object" /\ Get(arg, "message").type = "string") =>
         Get(ResponseError(result), "message") = Get(arg, "message")
    /\ Get(ResponseError(result), "code") =
         FirstDefined(toIBaseError(arg), "code", Str("E_UNEXPECTED_ERROR"))
    /\ \A i \in DOMAIN ChainNodes(arg) :
         LET erf == Get(ChainNodes(arg)[i], "extraResponseFields")
         IN  "error" \in OwnKeys(erf) => ResponseError(result) # erf.props["error"]

\* C13 witness: the cause of the caught error carries extraResponseFields
\* with the key "error" next to another key, which alone reaches the response
C13_Witness ==
  /\ Answered
  /\ Len(ChainNodes(arg)) = 2
  /\ OwnKeys(Get(ChainNodes(arg)[2], "extraResponseFields")) = {"a", "error"}
  /\ OwnKeys(result) = {"error", "a"}
  /\ Get(ResponseError(result), "message") = Str("helo")

-----------------------------------------------------------------------------
(* Confidentiality of the response, checked under SpecRespond *)

\* the chain v with `message` set to text at the nodes whose depth (top = 1)
\* is in the set at
RECURSIVE WithMessagesAt(_, _, _, _)
WithMessagesAt(v, depth, at, text) ==
  LET renamed == IF depth \in at THEN SetProp(v, "message", Str(text)) ELSE v
  IN  IF Get(v, "cause").type = "object"
      THEN SetProp(renamed, "cause",
                   WithMessagesAt(Get(v, "cause"), depth + 1, at, text))
      ELSE renamed

\* the chains that differ from v only in the message of nodes below the top
LowerMessageVariants(v) ==
  {WithMessagesAt(v, 1, at, "secret") : at \in SUBSET (2..Len(ChainNodes(v)))}

\* the response to chain v under the options and frames of the observed call
ResponseTo(v) ==
  serializeErrorReport(
    [analyzeErrorStack(v) EXCEPT !.rootStackTrace = arg.report.rootStackTrace],
    arg.options)

\* C14: when the chain's aggregated `sensitive` is true, the response carries
\* the top error's message and no other: every chain that differs from the
\* analysed one only in the `message` of nodes below the top gets an equal
\* response.
C14_SensitiveHidesLowerMessages ==
  (called = "serializeErrorReport" /\ arg.report.sensitive = Bool(TRUE)) =>
    /\ Get(ResponseError(result), "message") = Get(error, "message")
    /\ \A other \in LowerMessageVariants(error) : ResponseTo(other) = result

\* C14 witness: a sensitive chain of three errors whose lower messages were
\* replaced without any change of the response
C14_Witness ==
  /\ called = "serializeErrorReport"
  /\ arg.report.sensitive = Bool(TRUE)
  /\ Len(ChainNodes(error)) = 3
  /\ Cardinality(LowerMessageVariants(error)) = 4
  /\ \E other \in LowerMessageVariants(error) :
       /\ analyzeErrorStack(other).causeStack # arg.report.causeStack
       /\ ResponseTo(other) = result

-----------------------------------------------------------------------------
(* The log entry, checked under SpecRespond *)

\* the code/status line is wanted: by default, and unless switched off
CodeAndStatusWanted(options) ==
  options = Undefined \/ Get(options, "includeCodeAndStatus") # Bool(FALSE)

-----------------------------------------------------------------------------
(* Properties of addErrorContext, checked under SpecContext / SpecContextFair *)

\* the operation resolved with a value
SourceFulfilled == promises[1].state = "fulfilled"

\* no context function has been called
NoContextCalled == \A i \in DOMAIN handlers : handlers[i].calls = 0

\* C16: if the promise addErrorContext is called on resolves with x, the
\* returned promise resolves with the same x (it never settles otherwise,
\* and from some point on every returned promise stays resolved with x), and
\* a context function is called neither before the resolution (while the
\* promise is pending) nor after it.
C16_ResolutionPassesThrough ==
  /\ [](promises[1].state # "rejected" => NoContextCalled)
  /\ [](SourceFulfilled =>
          \A i \in DOMAIN handlers : promises[i + 1] \in {Pending, promises[1]})
  /\ [][SourceFulfilled => promises'[1] = promises[1]]_vars
  /\ <>[](SourceFulfilled =>
            \A i \in DOMAIN handlers : promises[i + 1] = promises[1])

\* C16 witness: two contexts, one of them a function, on an operation that
\* resolved with 42; the last promise resolved with 42 and nothing was called
C16_Witness ==
  /\ promises[1] = Fulfilled(Num(42))
  /\ Len(handlers) = 2
  /\ TypeOf(handlers[1].context) = "function"
  /\ promises[3] = Fulfilled(Num(42))
  /\ NoContextCalled

\* the ContextSpec a context stands for: itself, or what the function returns
SpecOf(context) ==
  IF TypeOf(context) = "function" THEN context.returns ELSE context

\* the options a context carries (none for a string)
ContextOption(context, k) ==
  IF TypeOf(SpecOf(context)) = "string" THEN Undefined
  ELSE Get(SpecOf(context), k)

\* the cause the wrapping error must have for the rejection value e: e as it
\* now is (the same object) when it conforms, its normal form otherwise
ExpectedCause(e, now) == IF isIBaseError(e) THEN now ELSE toIBaseError(e)

\* C17: if the promise rejects with e, the returned promise never resolves
\* and rejects with a BaseError whose message and options are the context's
\* and whose cause is e itself when e conforms to IBaseError and
\* toIBaseError(e) otherwise, whatever `cause` the context object has; a
\* context function is called exactly once, and only after the rejection.
C17_RejectionIsWrapped ==
  \A i \in DOMAIN handlers :
    /\ handlers[i].calls > 0 => promises[i].state = "rejected"
    /\ promises[i].state = "rejected" => promises[i + 1].state # "fulfilled"
    /\ (promises[i].state = "rejected" /\ promises[i + 1] # Pending) =>
         /\ OwnKeys(promises[i + 1].value) =
              {"message", "stack", "code", "status", "messages", "cause",
               "sensitive", "silent", "extraResponseFields"}
         /\ Get(promises[i + 1].value, "message") =
              IF TypeOf(SpecOf(handlers[i].context)) = "string"
              THEN SpecOf(handlers[i].context)
              ELSE Get(SpecOf(handlers[i].context), "message")
         /\ \A k \in {"code", "status", "sensitive", "silent"} :
              Get(promises[i + 1].value, k) = ContextOption(handlers[i].context, k)
         /\ Get(promises[i + 1].value, "cause") =
              ExpectedCause(handlers[i].caught, promises[i].value)
         /\ handlers[i].calls =
              IF TypeOf(handlers[i].context) = "function" THEN 1 ELSE 0

-----------------------------------------------------------------------------
(* Properties of the two branches of toIBaseError, checked under Spec *)

\* toIBaseError was called on an object that passes / fails the shallow check
KeptInPlace ==
  called = "toIBaseError" /\ arg.type = "object" /\ shallowIsIBaseError(arg)

Reconstructed ==
  called = "toIBaseError" /\ arg.type = "object" /\ ~shallowIsIBaseError(arg)

\* C18: for an input that passes shallowIsIBaseError, toIBaseError returns
\* the input object itself (the caller's object, as it is after the call)
\* with every field other than `cause` unchanged; a cause that is neither
\* undefined nor null is replaced by toIBaseError(cause); a cause that is
\* present but undefined or null is removed.
C18_ShallowValidKeptInPlace ==
  KeptInPlace =>
    /\ result # Throw
    /\ result = error
    /\ OwnKeys(result) \ {"cause"} = OwnKeys(arg) \ {"cause"}
    /\ \A k \in OwnKeys(arg) \ {"cause"} : Get(result, k) = Get(arg, k)
    /\ ("cause" \in OwnKeys(arg) /\ ~IsNullish(Get(arg, "cause"))) =>
         Get(result, "cause") = toIBaseError(Get(arg, "cause"))
    /\ ("cause" \in OwnKeys(arg) /\ IsNullish(Get(arg, "cause"))) =>
         "cause" \notin OwnKeys(result)

\* C19: when a shallow-invalid object with an array `messages` is
\* reconstructed, the result's messages has the same length and order and
\* only well-formed issues: {message: s} for a bare string s, the entry itself
\* when it is a well-formed issue, a placeholder issue with the entry's JSON
\* text for anything else.
C19_MessagesCoerced ==
  (Reconstructed /\ Get(arg, "messages").type = "array") =>
    /\ result # Throw
    /\ Get(result, "messages").type = "array"
    /\ Len(Get(result, "messages").items) = Len(Get(arg, "messages").items)
    /\ \A i \in DOMAIN Get(arg, "messages").items :
         LET entry  == Get(arg, "messages").items[i]
             coerced == Get(result, "messages").items[i]
         IN  /\ IsValidationIssue(coerced)
             /\ coerced = IF entry.type = "string" THEN Obj("message" :> entry)
                          ELSE IF IsValidationIssue(entry) THEN entry
                          ELSE Obj("message" :> JsonText(entry))

\* the value has the type IBaseError requires of field k
WellTyped(k, v) ==
  TypeOf(v) = CASE k \in {"code", "stack"} -> "string"
                [] k = "status" -> "number"
                [] k \in {"sensitive", "silent"} -> "boolean"

\* C20: the reconstruction of a shallow-invalid object keeps a string
\* `message`; has each of code, status, stack, sensitive, silent with the
\* input's value exactly when that value has the required type; keeps a
\* well-typed extraResponseFields with all keys but "error"; turns a present,
\* non-null cause into toIBaseError(cause) and has no cause for a null one.
C20_ReconstructionKeepsTypedFields ==
  Reconstructed =>
    /\ result # Throw
    /\ Get(arg, "message").type = "string" =>
         Get(result, "message") = Get(arg, "message")
    /\ \A k \in {"code", "status", "stack", "sensitive", "silent"} :
         IF k \in OwnKeys(arg) /\ WellTyped(k, Get(arg, k))
         THEN k \in OwnKeys(result) /\ Get(result, k) = Get(arg, k)
         ELSE k \notin OwnKeys(result)
    /\ Get(arg, "extraResponseFields").type = "object" =>
         /\ OwnKeys(Get(result, "extraResponseFields")) =
              OwnKeys(Get(arg, "extraResponseFields")) \ {"error"}
         /\ \A k \in OwnKeys(Get(result, "extraResponseFields")) :
              Get(Get(result, "extraResponseFields"), k) =
                Get(Get(arg, "extraResponseFields"), k)
    /\ IF "cause" \in OwnKeys(arg) /\ ~IsNullish(Get(arg, "cause"))
       THEN Get(result, "cause") = toIBaseError(Get(arg, "cause"))
       ELSE "cause" \notin OwnKeys(result)

-----------------------------------------------------------------------------
(* Properties of the BaseError constructor, checked under SpecConstruct *)

\* the constructor returned an object
Constructed == called = "BaseError" /\ result # Throw

\* C21: every object the BaseError constructor creates, whatever the cause
\* (nothing, a primitive, null, a malformed object) and the options, passes
\* isIBaseError.
C21_ConstructedConforms ==
  Constructed => isIBaseError(result)

-----------------------------------------------------------------------------
(* Frame of the reconstructing branch of toIBaseError, checked under Spec *)

\* the object `before` is now `after`, and nothing changed on it or below it
\* other than the `cause` field of objects that pass shallowIsIBaseError
RECURSIVE OnlyValidCauseCorrected(_, _)
OnlyValidCauseCorrected(before, after) ==
  IF before.type # "object" THEN after = before
  ELSE /\ after.type = "object"
       /\ \A k \in (OwnKeys(before) \cup OwnKeys(after)) \ {"cause"} :
            /\ k \in OwnKeys(before) /\ k \in OwnKeys(after)
            /\ Get(after, k) = Get(before, k)
       /\ \/ shallowIsIBaseError(before)
          \/ /\ ("cause" \in OwnKeys(after)) = ("cause" \in OwnKeys(before))
             /\ OnlyValidCauseCorrected(Get(before, "cause"), Get(after, "cause"))

\* C22: when toIBaseError reconstructs (the input fails shallowIsIBaseError),
\* the input object and everything reachable from it (extraResponseFields,
\* messages, cause) are as before the call; the only mutation in place is the
\* correction of `cause` on an object that was already shallow-valid.
C22_ReconstructionLeavesInput ==
  Reconstructed => OnlyValidCauseCorrected(arg, error)

-----------------------------------------------------------------------------
(* Chained addErrorContext calls, checked under SpecContext *)

\* the message a context gives to its BaseError
ContextMessage(context) ==
  IF TypeOf(SpecOf(context)) = "string" THEN SpecOf(context)
  ELSE Get(SpecOf(context), "message")

\* the number of calls a context has had once its callback has run
CalledOnce(handler) ==
  handler.calls = IF TypeOf(handler.context) = "function" THEN 1 ELSE 0

\* C23: for p.addErrorContext(c1).addErrorContext(c2) where p rejects with e,
\* the final rejection is a BaseError with c2's message whose cause is the
\* BaseError with c1's message whose cause is the normalised e, so that
\* analyzeErrorStack gives a causeStack starting [c2's message, c1's message,
\* e's message]; c1 is evaluated before c2 and each exactly once; if p
\* resolves, neither is evaluated.
C23_ChainedContexts ==
  \A i \in DOMAIN handlers :
    (i + 1 \in DOMAIN handlers) =>
      LET c1 == handlers[i]
          c2 == handlers[i + 1]
      IN  /\ c1.calls <= 1 /\ c2.calls <= 1
          /\ c2.calls > 0 => (promises[i + 1] # Pending /\ CalledOnce(c1))
          /\ promises[i].state = "fulfilled" => (c1.calls = 0 /\ c2.calls = 0)
          /\ (promises[i].state = "rejected" /\ promises[i + 2] # Pending) =>
               \E final \in {promises[i + 2].value} :
               \E report \in {analyzeErrorStack(final)} :
               \E normal \in {toIBaseError(c1.caught)} :
                 /\ promises[i + 2].state = "rejected"
                 /\ CalledOnce(c1) /\ CalledOnce(c2)
                 /\ Get(final, "message") = ContextMessage(c2.context)
                 /\ Get(Get(final, "cause"), "message") = ContextMessage(c1.context)
                 /\ normal # Throw
                 /\ Get(Get(final, "cause"), "cause") =
                      ExpectedCause(c1.caught, promises[i].value)
                 /\ report # Throw
                 /\ Len(report.causeStack) >= 3
                 /\ SubSeq(report.causeStack, 1, 3) =
                      <<ContextMessage(c2.context), ContextMessage(c1.context),
                        Get(normal, "message")>>

====
